---- MODULE Spec2Model ----
(***************************************************************************)
(* Model of golazy's withLoader[T] cell (with_loader.go) and its public    *)
(* constructors: one cell, up to NumProcs goroutines inside Value() and    *)
(* Clear() at a time, a discrete clock, and a loader that is the           *)
(* environment: each invocation returns one of LoaderResults.              *)
(*                                                                         *)
(* The history variables ldr, chk, waitedOn, callCount, ncalls and log     *)
(* record what the callers and the loader observe; no action of the cell   *)
(* reads them.  log lists the completed calls in the order in which they   *)
(* held the mutex, which is the order in which they took effect.           *)
(***************************************************************************)
EXTENDS Integers, Sequences, FiniteSets, TLC

\* ---------------------------------------------------------------- bounds
\* goroutines that can be inside Value()/Clear() at the same time
NumProcs == 2
\* Value()/Clear() calls made in one behaviour
MaxCalls == 3
\* last reading of the clock
MaxTime  == 2

Procs == 1..NumProcs

\* ------------------------------------------------------------ value sets
NoErr        == "nil"
Errs         == {NoErr, "boom"}
ZeroVal      == "zero"
PreloadValue == "preloaded"
ArgLists     == {<<"hello", "world">>}
TTLs         == {1}
Background   == "background"
\* the ctxs a caller passes to Value(): none, as in all but one of the tests
CtxLists     == {<<>>}

\* what a loader invocation can return: a value with a nil error, or an error
\* (with the zero value, as the loaders of the tests do)
LoaderResults ==
    {[val |-> "v1", err |-> NoErr], [val |-> "v2", err |-> NoErr],
     [val |-> ZeroVal, err |-> "boom"]}

VARIABLES
    kind,       \* which constructor built the cell: "fresh" / "preloaded" / "static"
    value,      \* l.value
    args,       \* l.args
    loaded,     \* l.loaded
    withTTL,    \* l.withTTL
    ttl,        \* l.ttl
    lastLoad,   \* l.lastLoad: <<>> is nil, <<t>> points at time t
    mu,         \* l.mu: TRUE when locked
    now,        \* the clock read by time.Now() / time.Since()
    pc,         \* per goroutine: position inside Value() / Clear()
    ctxs,       \* per goroutine: the ctxs argument of its Value() call
    err,        \* per goroutine: the local variable err of Value()
    ldr,        \* per goroutine: loader invocations made by its current call
    chk,        \* per goroutine: clock reading of its needsRefresh evaluation
    waitedOn,   \* per goroutine: log index of the load it was queued behind (0: none)
    callCount,  \* total number of loader invocations
    ncalls,     \* number of Value()/Clear() calls started
    log,        \* completed operations, in the order they held the lock
    variant     \* a second cell, whose Value() writes lastLoad only after a
                \* successful load; it is run next to the cell under SpecVariant

cell == <<value, args, loaded, withTTL, ttl, lastLoad>>
vars == <<kind, value, args, loaded, withTTL, ttl, lastLoad, mu, now,
          pc, ctxs, err, ldr, chk, waitedOn, callCount, ncalls, log, variant>>

\* ---------------------------------------------------------- constructors
newWithLoader(wTTL, d, a) ==
    [value |-> ZeroVal, args |-> a, loaded |-> FALSE,
     withTTL |-> wTTL, ttl |-> d, lastLoad |-> <<>>]

newWithLoaderPreloaded(v, wTTL, d, a, t) ==
    [value |-> v, args |-> a, loaded |-> FALSE,
     withTTL |-> wTTL, ttl |-> d, lastLoad |-> <<t>>]

WithLoader(a)         == newWithLoader(FALSE, 0, a)
WithLoaderTTL(d, a)   == newWithLoader(TRUE, d, a)
Preloaded(v, a, t)    == newWithLoaderPreloaded(v, FALSE, 0, a, t)
PreloadedTTL(v, d, a, t) == newWithLoaderPreloaded(v, TRUE, d, a, t)

FreshCells ==
    {WithLoader(a) : a \in ArgLists}
        \cup {WithLoaderTTL(d, a) : d \in TTLs, a \in ArgLists}

PreloadedCells ==
    {Preloaded(PreloadValue, a, 0) : a \in ArgLists}
        \cup {PreloadedTTL(PreloadValue, d, a, 0) : d \in TTLs, a \in ArgLists}

\* the variant cell is built by the same constructor call as the cell; agree
\* records that its Value() calls have so far decided as the cell's did
VariantOf(v, l, t) == [value |-> v, loaded |-> l, lastLoad |-> t, agree |-> TRUE]

Init ==
    /\ \E k \in {"fresh", "preloaded"} :
         \E c \in (IF k = "fresh" THEN FreshCells ELSE PreloadedCells) :
            /\ kind = k
            /\ value = c.value
            /\ args = c.args
            /\ loaded = c.loaded
            /\ withTTL = c.withTTL
            /\ ttl = c.ttl
            /\ lastLoad = c.lastLoad
    /\ mu = FALSE
    /\ now = 0
    /\ pc = [p \in Procs |-> "idle"]
    /\ ctxs = [p \in Procs |-> <<>>]
    /\ err = [p \in Procs |-> NoErr]
    /\ ldr = [p \in Procs |-> <<>>]
    /\ chk = [p \in Procs |-> 0]
    /\ waitedOn = [p \in Procs |-> 0]
    /\ callCount = 0
    /\ ncalls = 0
    /\ log = <<>>
    /\ variant = VariantOf(value, loaded, lastLoad)

\* ------------------------------------------------------------ the mutex
\* a Lock() that does not wait for the holder
LockNoWait(p, next) ==
    /\ mu' = TRUE
    /\ pc' = [pc EXCEPT ![p] = next]

\* l.mu.Lock(): blocks while the mutex is held
Lock(p, next) ==
    /\ mu = FALSE
    /\ mu' = TRUE
    /\ pc' = [pc EXCEPT ![p] = next]

\* ------------------------------------------------------------- Value()
\* expiry already at an elapsed time equal to the ttl
needsRefreshAtTTL(t) ==
    withTTL /\ lastLoad # <<>> /\ (t - lastLoad[1]) >= ttl

\* an expiry test that forgets to look at l.withTTL
needsRefreshNoFlag(t) ==
    lastLoad # <<>> /\ (t - lastLoad[1]) > ttl

\* needsRefresh := l.withTTL && l.lastLoad != nil && time.Since(*l.lastLoad) > l.ttl
needsRefresh(t) ==
    withTTL /\ lastLoad # <<>> /\ (t - lastLoad[1]) > ttl

\* a refresh test that ignores the ttl
NeverExpired(t) == loaded

\* the cached value can be returned as it is: !(!l.loaded || needsRefresh)
CacheHit(t) == loaded /\ ~needsRefresh(t)

\* an err that starts out as an error of the cell's own
ErrZeroSentinel == "boom"

\* var err error
ErrZero == NoErr

\* a loader call that drops the constructor arguments
LoaderArgsDropped == <<>>

\* l.loader(ctx, l.args...)
LoaderArgs == args

\* a load that is recorded as valid whatever the loader returned
LoadedAlways(r) == TRUE

\* a load that is never recorded as valid
LoadedNever(r) == FALSE

\* l.loaded = err == nil
LoadedAfter(r) == r.err = NoErr

\* a Clear() that leaves the loaded flag alone
ClearLoadedKept == loaded

\* a Clear() that flips the loaded flag
ClearLoadedToggled == ~loaded

\* l.loaded = false
ClearLoaded == FALSE

\* a Clear() that leaves the timestamp alone
ClearLastLoadKept == lastLoad

\* l.lastLoad = nil
ClearLastLoad == <<>>

\* a failed load that keeps the value cached before it
LoadedValueKeptOnError(r) == IF r.err = NoErr THEN r.val ELSE value

\* l.value, err = l.loader(ctx, l.args...): the value slot takes what the
\* loader returned, also when it failed
LoadedValue(r) == r.val

\* a timestamp written only when the load succeeded
LoadTimeOnSuccess(p, r) == IF r.err = NoErr THEN <<now>> ELSE lastLoad

\* a timestamp taken when the call evaluated needsRefresh, before the load
LoadTimeAtStart(p, r) == <<chk[p]>>

\* t := time.Now(); l.lastLoad = &t: after the loader has returned, whatever
\* it returned
LoadTime(p, r) == <<now>>

\* a Value() that evaluates its condition again after a failed load
AfterLoadRetry(r) == IF r.err = NoErr THEN "Value_ret" ELSE "Value_check"

\* the if block ends after the load: the next statement is the return
AfterLoad(r) == "Value_ret"

\* a cache hit that restarts the expiration window
HitLastLoadTouched == <<now>>

\* a cache hit skips the if block: l.lastLoad is not written
HitLastLoad == lastLoad

\* a return that leaves the mutex locked
UnlockForgotten == TRUE

\* defer l.mu.Unlock()
Unlock == FALSE

\* a context choice that takes the last of the ctxs
ResolveCtxLast(cs) == IF Len(cs) > 0 THEN cs[Len(cs)] ELSE Background

\* if len(ctxs) > 0 { ctx = ctxs[0] } else { ctx = context.Background() }
ResolveCtx(cs) == IF Len(cs) > 0 THEN cs[1] ELSE Background

\* a goroutine calls l.Value(cs...)
ValueCall(p, cs) ==
    /\ pc[p] = "idle"
    /\ ncalls < MaxCalls
    /\ ncalls' = ncalls + 1
    /\ pc' = [pc EXCEPT ![p] = "Value_lock"]
    /\ ctxs' = [ctxs EXCEPT ![p] = cs]
    /\ UNCHANGED <<kind, cell, mu, now, err, ldr, chk, waitedOn, callCount, log>>
    /\ UNCHANGED variant

\* l.mu.Lock()
ValueLock(p) ==
    /\ pc[p] = "Value_lock"
    /\ Lock(p, "Value_check")
    /\ UNCHANGED <<kind, cell, now, ctxs, err, ldr, chk, waitedOn,
                   callCount, ncalls, log, variant>>

\* var err error; needsRefresh := ...; if !l.loaded || needsRefresh { ...
\* and, when a load is needed, the call l.loader(ctx, l.args...) is made
ValueCheckStep(p) ==
    /\ pc[p] = "Value_check"
    /\ chk' = [chk EXCEPT ![p] = now]
    /\ err' = [err EXCEPT ![p] = ErrZero]
    /\ IF ~CacheHit(now)
         THEN /\ pc' = [pc EXCEPT ![p] = "Value_load"]
              /\ callCount' = callCount + 1
              /\ ldr' = [ldr EXCEPT ![p] =
                             Append(@, [ctx |-> ResolveCtx(ctxs[p]), args |-> LoaderArgs,
                                        val |-> ZeroVal, err |-> NoErr, doneAt |-> 0])]
         ELSE /\ pc' = [pc EXCEPT ![p] = "Value_ret"]
              /\ UNCHANGED <<callCount, ldr>>
    /\ lastLoad' = IF CacheHit(now) THEN HitLastLoad ELSE lastLoad
    /\ UNCHANGED <<kind, value, args, loaded, withTTL, ttl, mu, now, ctxs,
                   waitedOn, ncalls, log>>

ValueCheck(p) == ValueCheckStep(p) /\ UNCHANGED variant

\* the loader returns r, and the statements that follow it under the lock:
\* l.value, err = ...; l.loaded = err == nil; t := time.Now(); l.lastLoad = &t
LoaderReturnStep(p, r) ==
    /\ pc[p] = "Value_load"
    /\ value' = LoadedValue(r)
    /\ err' = [err EXCEPT ![p] = r.err]
    /\ loaded' = LoadedAfter(r)
    /\ lastLoad' = LoadTime(p, r)
    /\ pc' = [pc EXCEPT ![p] = AfterLoad(r)]
    /\ ldr' = [ldr EXCEPT ![p][Len(ldr[p])] =
                   [@ EXCEPT !.val = r.val, !.err = r.err, !.doneAt = now]]
    /\ waitedOn' = [q \in Procs |->
                       IF q # p /\ pc[q] = "Value_lock" /\ waitedOn[q] = 0
                         THEN Len(log) + 1 ELSE waitedOn[q]]
    /\ UNCHANGED <<kind, args, withTTL, ttl, mu, now, ctxs, chk,
                   callCount, ncalls, log>>

LoaderReturn(p, r) == LoaderReturnStep(p, r) /\ UNCHANGED variant

ValueEntry(p) ==
    [op |-> "Value", ctxs |-> ctxs[p], loads |-> ldr[p], at |-> chk[p],
     val |-> value, err |-> err[p], waited |-> waitedOn[p]]

\* return l.value, err (and the deferred l.mu.Unlock())
ValueReturn(p) ==
    /\ pc[p] = "Value_ret"
    /\ mu' = Unlock
    /\ pc' = [pc EXCEPT ![p] = "idle"]
    /\ log' = Append(log, ValueEntry(p))
    /\ ctxs' = [ctxs EXCEPT ![p] = <<>>]
    /\ err' = [err EXCEPT ![p] = NoErr]
    /\ ldr' = [ldr EXCEPT ![p] = <<>>]
    /\ chk' = [chk EXCEPT ![p] = 0]
    /\ waitedOn' = [waitedOn EXCEPT ![p] = 0]
    /\ UNCHANGED <<kind, cell, now, callCount, ncalls>>
    /\ UNCHANGED variant

\* ------------------------------------------------------------- Clear()
ClearCall(p) ==
    /\ pc[p] = "idle"
    /\ ncalls < MaxCalls
    /\ ncalls' = ncalls + 1
    /\ pc' = [pc EXCEPT ![p] = "Clear_lock"]
    /\ UNCHANGED <<kind, cell, mu, now, ctxs, err, ldr, chk, waitedOn,
                   callCount, log, variant>>

ClearLock(p) ==
    /\ pc[p] = "Clear_lock"
    /\ Lock(p, "Clear_body")
    /\ UNCHANGED <<kind, cell, now, ctxs, err, ldr, chk, waitedOn,
                   callCount, ncalls, log, variant>>

ClearEntry == [op |-> "Clear"]

\* l.loaded = false; l.lastLoad = nil (and the deferred l.mu.Unlock())
ClearBodyStep(p) ==
    /\ pc[p] = "Clear_body"
    /\ loaded' = ClearLoaded
    /\ lastLoad' = ClearLastLoad
    /\ mu' = Unlock
    /\ pc' = [pc EXCEPT ![p] = "idle"]
    /\ log' = Append(log, ClearEntry)
    /\ UNCHANGED <<kind, value, args, withTTL, ttl, now, ctxs, err, ldr, chk,
                   waitedOn, callCount, ncalls>>

ClearBody(p) == ClearBodyStep(p) /\ UNCHANGED variant

\* --------------------------------------------------------------- clock
Tick ==
    /\ now < MaxTime
    /\ now' = now + 1
    /\ UNCHANGED <<kind, cell, mu, pc, ctxs, err, ldr, chk, waitedOn,
                   callCount, ncalls, log, variant>>

Next ==
    \/ \E p \in Procs : \E cs \in CtxLists : ValueCall(p, cs)
    \/ \E p \in Procs : ValueLock(p)
    \/ \E p \in Procs : ValueCheck(p)
    \/ \E p \in Procs : \E r \in LoaderResults : LoaderReturn(p, r)
    \/ \E p \in Procs : ValueReturn(p)
    \/ \E p \in Procs : ClearCall(p)
    \/ \E p \in Procs : ClearLock(p)
    \/ \E p \in Procs : ClearBody(p)
    \/ Tick

Spec == Init /\ [][Next]_vars

\* ------------------------------------- the cell next to the variant cell
\* The variant differs from the cell in one statement: it writes l.lastLoad
\* only when the loader returned a nil error.  Both cells get the same calls
\* in the same order, the same loader results and the same clock; the steps
\* below are those of the cell, with the variant's own fields updated by the
\* variant's code.

\* the variant's needsRefresh and its test for a load, on its own fields
VariantNeedsRefresh(t) ==
    withTTL /\ variant.lastLoad # <<>> /\ (t - variant.lastLoad[1]) > ttl

VariantCacheHit(t) == variant.loaded /\ ~VariantNeedsRefresh(t)

\* if err == nil { t := time.Now(); l.lastLoad = &t }
VariantLoadTime(r) == IF r.err = NoErr THEN <<now>> ELSE variant.lastLoad

\* both cells evaluate their condition; agree is lost when one of them would
\* invoke the loader and the other would not
VariantValueCheck(p) ==
    /\ ValueCheckStep(p)
    /\ variant' = [variant EXCEPT !.agree = @ /\ (VariantCacheHit(now) = CacheHit(now))]

VariantLoaderReturn(p, r) ==
    /\ LoaderReturnStep(p, r)
    /\ variant' = [variant EXCEPT !.value = LoadedValue(r),
                                   !.loaded = LoadedAfter(r),
                                   !.lastLoad = VariantLoadTime(r)]

VariantClearBody(p) ==
    /\ ClearBodyStep(p)
    /\ variant' = [variant EXCEPT !.loaded = ClearLoaded, !.lastLoad = ClearLastLoad]

NextVariant ==
    \/ \E p \in Procs : \E cs \in CtxLists : ValueCall(p, cs)
    \/ \E p \in Procs : ValueLock(p)
    \/ \E p \in Procs : VariantValueCheck(p)
    \/ \E p \in Procs : \E r \in LoaderResults : VariantLoaderReturn(p, r)
    \/ \E p \in Procs : ValueReturn(p)
    \/ \E p \in Procs : ClearCall(p)
    \/ \E p \in Procs : ClearLock(p)
    \/ \E p \in Procs : VariantClearBody(p)
    \/ Tick

SpecVariant == Init /\ [][NextVariant]_vars

\* ------------------------------------------------- callers passing contexts
\* the ctxs a caller can pass to Value(): none, one, or several, the first of
\* which may be cancelled already
AllCtxLists == {<<>>, <<"c1">>, <<"cancelled", "c2">>}

\* cells built by WithLoader
InitCtx ==
    /\ Init
    /\ kind = "fresh"
    /\ ~withTTL

\* the calls of Next with every kind of ctxs; the clock plays no part
NextCtx ==
    \/ \E p \in Procs : \E cs \in AllCtxLists : ValueCall(p, cs)
    \/ \E p \in Procs : ValueLock(p)
    \/ \E p \in Procs : ValueCheck(p)
    \/ \E p \in Procs : \E r \in LoaderResults : LoaderReturn(p, r)
    \/ \E p \in Procs : ValueReturn(p)
    \/ \E p \in Procs : ClearCall(p)
    \/ \E p \in Procs : ClearLock(p)
    \/ \E p \in Procs : ClearBody(p)

SpecCtx == InitCtx /\ [][NextCtx]_vars

\* ---------------------------------------------------------- static cells
StaticVals == {"v1", "v2"}

\* Static(value): &static[T]{value: value}; a static cell has no other field,
\* the rest of the state keeps the values of an unused cell
Static(v) ==
    [value |-> v, args |-> <<>>, loaded |-> FALSE,
     withTTL |-> FALSE, ttl |-> 0, lastLoad |-> <<>>]

InitStatic ==
    /\ \E v \in StaticVals :
          /\ kind = "static"
          /\ value = Static(v).value
          /\ args = Static(v).args
          /\ loaded = Static(v).loaded
          /\ withTTL = Static(v).withTTL
          /\ ttl = Static(v).ttl
          /\ lastLoad = Static(v).lastLoad
    /\ mu = FALSE
    /\ now = 0
    /\ pc = [p \in Procs |-> "idle"]
    /\ ctxs = [p \in Procs |-> <<>>]
    /\ err = [p \in Procs |-> NoErr]
    /\ ldr = [p \in Procs |-> <<>>]
    /\ chk = [p \in Procs |-> 0]
    /\ waitedOn = [p \in Procs |-> 0]
    /\ callCount = 0
    /\ ncalls = 0
    /\ log = <<>>
    /\ variant = VariantOf(value, loaded, lastLoad)

\* return l.value, nil
StaticResult == [val |-> value, err |-> NoErr]

\* static.Value(cs...): one statement, no lock, the ctxs are not looked at
StaticValue(cs) ==
    /\ ncalls < MaxCalls
    /\ ncalls' = ncalls + 1
    /\ log' = Append(log, [op |-> "Value", ctxs |-> cs, loads |-> <<>>, at |-> now,
                            val |-> StaticResult.val, err |-> StaticResult.err,
                            waited |-> 0])
    /\ UNCHANGED <<kind, cell, mu, now, pc, ctxs, err, ldr, chk, waitedOn, callCount>>
    /\ UNCHANGED variant

\* a Clear() that resets the value
StaticClearedZero == ZeroVal

\* static.Clear(): nothing
StaticCleared == value

StaticClear ==
    /\ ncalls < MaxCalls
    /\ ncalls' = ncalls + 1
    /\ value' = StaticCleared
    /\ log' = Append(log, ClearEntry)
    /\ UNCHANGED <<kind, args, loaded, withTTL, ttl, lastLoad, mu, now, pc, ctxs,
                   err, ldr, chk, waitedOn, callCount, variant>>

NextStatic ==
    \/ \E cs \in AllCtxLists : StaticValue(cs)
    \/ StaticClear
    \/ Tick

SpecStatic == InitStatic /\ [][NextStatic]_vars

TypeOK ==
    /\ kind \in {"fresh", "preloaded", "static"}
    /\ loaded \in BOOLEAN
    /\ mu \in BOOLEAN
    /\ now \in 0..MaxTime
    /\ Len(lastLoad) <= 1
    /\ callCount \in 0..MaxCalls
    /\ Len(log) <= MaxCalls

\* ================================================================ claims
\* vocabulary over the log of completed operations
IsValue(e)   == e.op = "Value"
IsClear(e)   == e.op = "Clear"
Invoked(e)   == IsValue(e) /\ Len(e.loads) > 0
IsHit(e)     == IsValue(e) /\ Len(e.loads) = 0
LoadOf(e)    == e.loads[1]
Succeeded(e) == Invoked(e) /\ LoadOf(e).err = NoErr
Failed(e)    == Invoked(e) /\ LoadOf(e).err # NoErr
LogIdx       == 1..Len(log)
\* the call at log position j was made no later than ttl after the load at i
\* returned (always so without a TTL)
WithinTTL(i, j) == withTTL => (log[j].at - LoadOf(log[i]).doneAt) <= ttl
OnlyValues(i, j) == \A k \in (i + 1)..(j - 1) : IsValue(log[k])
OnlyHits(i, j)   == \A k \in (i + 1)..(j - 1) : IsHit(log[k])

\* C1: a preloaded cell's first Value() call (made before any TTL expiry)
\* returns the preload value with a nil error without invoking the loader, and
\* the Value() call after a following Clear() invokes the loader and returns
\* the loader's result.
C1_PreloadedFirstValue ==
    (kind = "preloaded" /\ Len(log) >= 1 /\ IsValue(log[1])
        /\ (withTTL => log[1].at <= ttl))
    => /\ IsHit(log[1])
       /\ log[1].val = PreloadValue
       /\ log[1].err = NoErr
       /\ (Len(log) >= 3 /\ IsClear(log[2]) /\ IsValue(log[3]))
            => /\ Len(log[3].loads) = 1
               /\ log[3].val = LoadOf(log[3]).val
               /\ log[3].err = LoadOf(log[3]).err

\* C2: the first Value() call on a fresh cell invokes the loader exactly once,
\* with the constructor's argument list, and returns exactly the value and the
\* error the loader returned.
C2_FirstValueLoads ==
    \A j \in LogIdx :
        (kind = "fresh" /\ IsValue(log[j]) /\ \A k \in 1..(j - 1) : IsClear(log[k]))
        => /\ Len(log[j].loads) = 1
           /\ LoadOf(log[j]).args = args
           /\ args \in ArgLists
           /\ log[j].val = LoadOf(log[j]).val
           /\ log[j].err = LoadOf(log[j]).err

C2_Witness ==
    /\ kind = "fresh"
    /\ Len(log) >= 1
    /\ Failed(log[1])
    /\ callCount = 1

\* C3: after a successful load, every further Value() call made before TTL
\* expiry and before any Clear() is served without invoking the loader, and
\* returns the loaded value with a nil error (so the load and the N calls after
\* it all return the same value, and the loader ran once).
C3_CachedAfterLoad ==
    \A i \in LogIdx : \A j \in LogIdx :
        (i < j /\ Succeeded(log[i]) /\ OnlyValues(i, j) /\ IsValue(log[j])
            /\ WithinTTL(i, j))
        => /\ IsHit(log[j])
           /\ log[j].val = LoadOf(log[i]).val
           /\ log[j].val = log[i].val
           /\ log[j].err = NoErr
           /\ log[i].err = NoErr

C3_Witness ==
    /\ Len(log) = 3
    /\ Succeeded(log[1])
    /\ IsHit(log[2])
    /\ IsHit(log[3])
    /\ withTTL
    /\ log[3].at - LoadOf(log[1]).doneAt = ttl
    /\ callCount = 1

\* C4: the first Value() call to take the lock after a Clear() invokes the
\* loader exactly once, whatever came before the Clear() and with or without
\* a TTL.
C4_ValueAfterClearLoads ==
    \A j \in LogIdx :
        (j > 1 /\ IsClear(log[j - 1]) /\ IsValue(log[j]))
        => Len(log[j].loads) = 1

C4_Witness ==
    /\ Len(log) = 3
    /\ Succeeded(log[1])
    /\ IsClear(log[2])
    /\ Invoked(log[3])
    /\ withTTL
    /\ log[3].at - LoadOf(log[1]).doneAt <= ttl


\* C5: with a TTL d, a Value() call made when at most d has elapsed since the
\* last successful load (that load's result still being the cell's cache: only
\* cache hits since) is a cache hit returning the same value, and the first
\* call made when more than d has elapsed invokes the loader exactly once and
\* returns what that reload returned.
C5_TTLExpiry ==
    \A i \in LogIdx : \A j \in LogIdx :
        (withTTL /\ i < j /\ Succeeded(log[i]) /\ OnlyHits(i, j) /\ IsValue(log[j]))
        => IF log[j].at - LoadOf(log[i]).doneAt <= ttl
             THEN /\ IsHit(log[j])
                  /\ log[j].val = LoadOf(log[i]).val
                  /\ log[j].err = NoErr
             ELSE /\ Len(log[j].loads) = 1
                  /\ log[j].val = LoadOf(log[j]).val
                  /\ log[j].err = LoadOf(log[j]).err

C5_Witness ==
    /\ withTTL
    /\ Len(log) = 3
    /\ Succeeded(log[1])
    /\ IsHit(log[2])
    /\ log[2].at - LoadOf(log[1]).doneAt = ttl
    /\ Succeeded(log[3])
    /\ log[3].at - LoadOf(log[1]).doneAt = ttl + 1
    /\ log[3].val # log[1].val
    /\ callCount = 2

\* C6: on a fresh cell without TTL, as long as no Clear() has run and no load
\* has failed, concurrent Value() calls lead to one loader invocation in
\* total, and every call returns the same value with a nil error.
C6_ConcurrentSingleLoad ==
    (kind = "fresh" /\ ~withTTL
        /\ \A i \in LogIdx : IsValue(log[i]) /\ ~Failed(log[i])
        /\ \A p \in Procs : ~(pc[p] = "Value_ret" /\ err[p] # NoErr))
    => /\ callCount <= 1
       /\ Len(log) >= 1 => callCount = 1
       /\ \A i \in LogIdx : \A j \in LogIdx :
            log[i].val = log[j].val /\ log[i].err = NoErr

C6_Witness ==
    /\ kind = "fresh"
    /\ ~withTTL
    /\ Len(log) = NumProcs
    /\ \A i \in LogIdx : IsValue(log[i])
    /\ Succeeded(log[1])
    /\ \A i \in 2..Len(log) : log[i].waited = 1
    /\ callCount = 1

\* C7: at most one loader invocation is in progress at any time.
C7_SingleFlight ==
    Cardinality({p \in Procs : pc[p] = "Value_load"}) <= 1

C7_Witness ==
    \E p \in Procs : \E q \in Procs :
        /\ pc[p] = "Value_load"
        /\ pc[q] = "Value_lock"
        /\ Len(log) = 1
        /\ Failed(log[1])
        /\ callCount = 2

C9_FailedLoad ==
    /\ \A p \in Procs : (pc[p] = "Value_ret" /\ err[p] # NoErr) => ~loaded
    /\ (~mu /\ Len(log) >= 1 /\ Failed(log[Len(log)])) => ~loaded
    /\ \A i \in LogIdx :
          Failed(log[i])
          => /\ log[i].err = LoadOf(log[i]).err
             /\ log[i].val = LoadOf(log[i]).val
             /\ \A j \in LogIdx :
                  (i < j /\ IsValue(log[j])
                      /\ \A k \in (i + 1)..(j - 1) : IsClear(log[k]))
                  => Len(log[j].loads) = 1

C9_Witness ==
    /\ Len(log) = 2
    /\ Failed(log[1])
    /\ Failed(log[2])
    /\ callCount = 2
    /\ ~loaded

\* C10: Value() returns a non-nil error only when that same call invoked the
\* loader and the loader returned that error; a cache hit returns a nil error,
\* and a never-loaded cell loads instead of failing.
C10_NoOwnErrors ==
    /\ \A j \in LogIdx :
          IsValue(log[j])
          => /\ log[j].err # NoErr
                => (Invoked(log[j]) /\ LoadOf(log[j]).err = log[j].err)
             /\ IsHit(log[j]) => log[j].err = NoErr
    /\ \A p \in Procs :
          (pc[p] = "Value_ret" /\ ldr[p] = <<>>) => (err[p] = NoErr /\ loaded)

C10_Witness ==
    /\ Len(log) = 3
    /\ Failed(log[1])
    /\ Succeeded(log[2])
    /\ IsHit(log[3])
    /\ log[3].err = NoErr


\* C11: without a TTL a loaded cell never expires: after a successful load no
\* Value() call invokes the loader, however much time has passed, until a
\* Clear() runs.
C11_NoTTLNeverExpires ==
    \A i \in LogIdx : \A j \in LogIdx :
        (~withTTL /\ i < j /\ Succeeded(log[i]) /\ OnlyValues(i, j) /\ IsValue(log[j]))
        => /\ IsHit(log[j])
           /\ log[j].val = LoadOf(log[i]).val

C11_Witness ==
    /\ ~withTTL
    /\ Len(log) >= 2
    /\ Succeeded(log[1])
    /\ LoadOf(log[1]).doneAt = 0
    /\ IsHit(log[2])
    /\ log[2].at = MaxTime
    /\ callCount = 1


\* the step in which a Clear() takes effect
ClearStep == \E p \in Procs : pc[p] = "Clear_body" /\ pc'[p] = "idle"

\* C12: whatever the state of the cell, Clear() sets loaded to false and the
\* last-load timestamp to absent, and leaves the value slot, the TTL setting
\* and the loader arguments as they were.
C12_ClearEffect ==
    [][ClearStep => /\ loaded' = FALSE
                    /\ lastLoad' = <<>>
                    /\ value' = value
                    /\ withTTL' = withTTL
                    /\ ttl' = ttl
                    /\ args' = args]_vars

C12_Witness ==
    /\ withTTL
    /\ ~mu
    /\ Len(log) = 2
    /\ Succeeded(log[1])
    /\ IsClear(log[2])
    /\ ~loaded
    /\ lastLoad = <<>>
    /\ value = LoadOf(log[1]).val

\* C13: Clear() is idempotent: a Clear() that takes the lock right after
\* another Clear() leaves every field of the cell as the first one left it
\* (so later Value() calls cannot tell one Clear() from two).
C13_ClearIdempotent ==
    [][(ClearStep /\ Len(log) >= 1 /\ IsClear(log[Len(log)]))
          => UNCHANGED cell]_vars

C13_Witness ==
    /\ Len(log) = 3
    /\ Succeeded(log[1])
    /\ IsClear(log[2])
    /\ IsClear(log[3])
    /\ ~loaded
    /\ lastLoad = <<>>

\* the goroutines between Lock() and the deferred Unlock()
InCritical == {p \in Procs : pc[p] \in {"Value_check", "Value_load", "Value_ret",
                                        "Clear_body"}}

\* C14: Value() and Clear() exclude each other: at most one goroutine is
\* between its Lock() and its Unlock(), the mutex is held exactly then, so a
\* Clear() takes effect only when no Value() is inside its critical section,
\* and the other way round.
C14_MutualExclusion ==
    /\ Cardinality(InCritical) <= 1
    /\ mu <=> InCritical # {}

C14_Witness ==
    \E p \in Procs : \E q \in Procs :
        /\ pc[p] = "Value_load"
        /\ pc[q] = "Clear_lock"
        /\ loaded
        /\ needsRefresh(chk[p])

\* C15: every loader invocation receives the argument list given to the
\* constructor, unchanged: first loads, reloads after Clear() and reloads
\* after TTL expiry, on fresh and on preloaded cells.
C15_ArgsForwarded ==
    /\ args \in ArgLists
    /\ \A j \in LogIdx :
          IsValue(log[j])
          => \A k \in 1..Len(log[j].loads) : log[j].loads[k].args = args
    /\ \A p \in Procs : \A k \in 1..Len(ldr[p]) : ldr[p][k].args = args

C15_Witness ==
    /\ kind = "preloaded"
    /\ withTTL
    /\ Len(log) = 3
    /\ IsClear(log[1])
    /\ Succeeded(log[2])
    /\ Invoked(log[3])
    /\ log[3].at - LoadOf(log[2]).doneAt > ttl
    /\ LoadOf(log[3]).args = <<"hello", "world">>


\* C18: right after construction a fresh cell has loaded = false and no
\* last-load timestamp, and a preloaded cell has loaded = true, the preload
\* value in its value slot and the construction time as its timestamp.
C18_InitialState ==
    (ncalls = 0)
    => /\ kind = "fresh" => (~loaded /\ lastLoad = <<>>)
       /\ kind = "preloaded"
            => (loaded /\ value = PreloadValue /\ lastLoad = <<0>>)

\* number of loader invocations made by the first n completed operations
RECURSIVE LoadsUpTo(_)
LoadsUpTo(n) ==
    IF n = 0 THEN 0
    ELSE LoadsUpTo(n - 1) + (IF IsValue(log[n]) THEN Len(log[n].loads) ELSE 0)

\* C19: on a PreloadedTTL cell with TTL d, a Value() call made before d has
\* elapsed since construction returns the preload value, a following Value()
\* call made after more than d has elapsed returns the loader's fresh value,
\* and the loader has run exactly once over the two calls.
C19_PreloadedTTLReload ==
    (kind = "preloaded" /\ withTTL /\ Len(log) >= 1 /\ IsValue(log[1])
        /\ log[1].at <= ttl)
    => /\ log[1].val = PreloadValue
       /\ LoadsUpTo(1) = 0
       /\ (Len(log) >= 2 /\ IsValue(log[2]) /\ log[2].at > ttl)
            => /\ Invoked(log[2])
               /\ log[2].val = LoadOf(log[2]).val
               /\ LoadsUpTo(2) = 1


\* the calls that took effect since the last Clear() (all of them when there
\* was none): log positions, and goroutines whose load has returned
LastClear == IF \E i \in LogIdx : IsClear(log[i])
               THEN CHOOSE i \in LogIdx :
                        IsClear(log[i]) /\ \A k \in (i + 1)..Len(log) : ~IsClear(log[k])
               ELSE 0
NeverCleared == LastClear = 0
SuccessSinceClear ==
    \/ \E i \in (LastClear + 1)..Len(log) : Succeeded(log[i])
    \/ \E p \in Procs : pc[p] = "Value_ret" /\ ldr[p] # <<>> /\ err[p] = NoErr
AttemptSinceClear ==
    \/ \E i \in (LastClear + 1)..Len(log) : Invoked(log[i])
    \/ \E p \in Procs : pc[p] = "Value_ret" /\ ldr[p] # <<>>

C16_StaticConstant ==
    /\ [](/\ value \in StaticVals
          /\ callCount = 0
          /\ \A j \in LogIdx :
                IsValue(log[j])
                => (log[j].val = value /\ log[j].err = NoErr /\ log[j].loads = <<>>))
    /\ [][UNCHANGED <<cell, mu, callCount>>]_vars

C16_Witness ==
    /\ kind = "static"
    /\ value = "v2"
    /\ Len(log) = 3
    /\ IsValue(log[1])
    /\ IsClear(log[2])
    /\ IsValue(log[3])
    /\ log[3].ctxs = <<"cancelled", "c2">>
    /\ log[3].val = "v2"
    /\ log[3].at > log[1].at

\* the context the claim names for a call given the ctxs cs
ClaimedCtx(cs) == IF cs = <<>> THEN "background" ELSE Head(cs)

\* C17 (under SpecCtx): the loader is handed the caller's first context when
\* there is one (further ones are ignored) and the background context when
\* there is none; the cell does not look at the context, so a call that finds
\* the cell unloaded invokes the loader even with a cancelled context.
C17_ContextForwarded ==
    /\ \A j \in LogIdx :
          IsValue(log[j])
          => /\ \A k \in 1..Len(log[j].loads) :
                    log[j].loads[k].ctx = ClaimedCtx(log[j].ctxs)
             /\ (j = 1 \/ IsClear(log[j - 1]) \/ Failed(log[j - 1]))
                   => Len(log[j].loads) = 1
    /\ \A p \in Procs : \A k \in 1..Len(ldr[p]) : ldr[p][k].ctx = ClaimedCtx(ctxs[p])

C17_Witness ==
    /\ Len(log) = 3
    /\ Failed(log[1])
    /\ log[1].ctxs = <<>>
    /\ LoadOf(log[1]).ctx = "background"
    /\ Succeeded(log[2])
    /\ log[2].ctxs = <<"cancelled", "c2">>
    /\ LoadOf(log[2]).ctx = "cancelled"
    /\ IsHit(log[3])
    /\ log[3].ctxs = <<"c1">>

\* the successful loader invocations so far: those of completed calls, and the
\* one of the call that holds the lock, if its loader has returned
ReturningSuccess == {p \in Procs : pc[p] = "Value_ret" /\ ldr[p] # <<>> /\ err[p] = NoErr}
LoggedSuccess    == {i \in LogIdx : Succeeded(log[i])}
HasSuccess       == ReturningSuccess # {} \/ LoggedSuccess # {}
\* what the most recent of them returned
LastSuccessVal ==
    IF ReturningSuccess # {}
      THEN LET p == CHOOSE q \in ReturningSuccess : TRUE IN ldr[p][Len(ldr[p])].val
      ELSE LET i == CHOOSE k \in LoggedSuccess : \A m \in LoggedSuccess : m <= k
           IN  LoadOf(log[i]).val

\* C21: whenever loaded is true, the value slot holds what the most recent
\* successful loader invocation returned, or, on a preloaded cell that has not
\* been cleared and has not reloaded since construction, the preload value.
C21_LoadedValue ==
    loaded => \/ HasSuccess /\ value = LastSuccessVal
              \/ /\ kind = "preloaded"
                 /\ NeverCleared
                 /\ callCount = 0
                 /\ value = PreloadValue

C21_Witness ==
    /\ loaded
    /\ Len(log) = 2
    /\ Succeeded(log[1])
    /\ Failed(log[2])
    /\ \E p \in Procs :
          /\ pc[p] = "Value_ret"
          /\ ldr[p] # <<>>
          /\ err[p] = NoErr
          /\ value = ldr[p][1].val
          /\ value # LoadOf(log[1]).val

C23_VariantEquivalent ==
    /\ variant.agree
    /\ variant.value = value
    /\ variant.loaded = loaded
    /\ VariantCacheHit(now) = CacheHit(now)
    /\ loaded => variant.lastLoad = lastLoad

C23_Witness ==
    /\ withTTL
    /\ Len(log) = 3
    /\ Succeeded(log[1])
    /\ Failed(log[2])
    /\ Failed(log[3])
    /\ variant.agree
    /\ ~loaded
    /\ ~variant.loaded
    /\ variant.lastLoad = <<LoadOf(log[1]).doneAt>>
    /\ lastLoad = <<LoadOf(log[3]).doneAt>>
    /\ now - variant.lastLoad[1] > ttl
    /\ now - lastLoad[1] <= ttl

\* C24: when a reload triggered by TTL expiry fails, the value cached before
\* it is gone: the value slot holds what the failed loader call returned,
\* loaded is false, the call returns that value with the loader's error, and
\* the next Value() call invokes the loader again.
C24_FailedReloadDiscards ==
    /\ \A p \in Procs :
          (pc[p] = "Value_ret" /\ ldr[p] # <<>> /\ err[p] # NoErr)
          => (value = ldr[p][Len(ldr[p])].val /\ ~loaded)
    /\ \A i \in LogIdx : \A j \in LogIdx :
          (withTTL /\ i < j /\ Succeeded(log[i]) /\ OnlyHits(i, j) /\ Failed(log[j])
              /\ log[j].at - LoadOf(log[i]).doneAt > ttl)
          => /\ log[j].val = LoadOf(log[j]).val
             /\ log[j].err = LoadOf(log[j]).err
             /\ (j = Len(log) /\ ~mu) => (~loaded /\ value = LoadOf(log[j]).val)
             /\ (j < Len(log) /\ IsValue(log[j + 1])) => Len(log[j + 1].loads) = 1

C24_Witness ==
    /\ withTTL
    /\ Len(log) = 3
    /\ Succeeded(log[1])
    /\ Failed(log[2])
    /\ log[2].at - LoadOf(log[1]).doneAt > ttl
    /\ log[2].val # log[1].val
    /\ log[2].err = "boom"
    /\ Succeeded(log[3])
    /\ log[3].at - LoadOf(log[2]).doneAt <= ttl

\* the Value() calls that have reached their test of the cell's state
ValueCallsChecked ==
    Cardinality({j \in LogIdx : IsValue(log[j])})
        + Cardinality({p \in Procs : pc[p] \in {"Value_load", "Value_ret"}})

\* C25: one Value() call invokes the loader at most once; when the loader
\* fails the call returns that error without invoking it again, and every
\* loader invocation after a failure belongs to a later Value() call, which
\* found loaded = false.
C25_AtMostOneLoadPerCall ==
    /\ \A j \in LogIdx : IsValue(log[j]) => Len(log[j].loads) <= 1
    /\ \A p \in Procs : Len(ldr[p]) <= 1
    /\ callCount <= ValueCallsChecked
    /\ \A j \in LogIdx : Failed(log[j]) => log[j].err = LoadOf(log[j]).err
    /\ \A p \in Procs :
          (pc[p] = "Value_load" /\ Len(log) >= 1 /\ Failed(log[Len(log)])) => ~loaded

C25_Witness ==
    /\ Len(log) = 2
    /\ Failed(log[1])
    /\ Failed(log[2])
    /\ \E p \in Procs : pc[p] = "Value_load" /\ Len(ldr[p]) = 1
    /\ callCount = 3

\* the steps of a Value() call that is a cache hit: its test of the cell's
\* state, which finds nothing to load, and its return
HitStep ==
    \E p \in Procs :
        \/ pc[p] = "Value_check" /\ pc'[p] = "Value_ret"
        \/ pc[p] = "Value_ret" /\ ldr[p] = <<>> /\ pc'[p] = "idle"

\* C26: a Value() call that is a cache hit changes no field of the cell, the
\* last-load timestamp included; so the TTL runs from the last load and not
\* from the last access: a call made more than the TTL after the load reloads
\* even when cache hits were served in between.
C26_HitChangesNothing ==
    /\ [][HitStep => UNCHANGED cell]_vars
    /\ [](\A i \in LogIdx : \A j \in LogIdx :
            (withTTL /\ i < j /\ Succeeded(log[i]) /\ OnlyHits(i, j) /\ IsValue(log[j]))
            => /\ IsHit(log[j]) => log[j].val = log[i].val
               /\ (j = Len(log) /\ ~mu /\ IsHit(log[j]))
                     => lastLoad = <<LoadOf(log[i]).doneAt>>
               /\ (log[j].at - LoadOf(log[i]).doneAt > ttl) => Invoked(log[j]))

C26_Witness ==
    /\ withTTL
    /\ Len(log) = 3
    /\ Succeeded(log[1])
    /\ IsHit(log[2])
    /\ log[2].at > LoadOf(log[1]).doneAt
    /\ Invoked(log[3])
    /\ log[3].at - log[2].at <= ttl
    /\ log[3].at - LoadOf(log[1]).doneAt > ttl

\* C27: the TTL runs from the time at which the load completed, not from the
\* time at which the loading Value() call began: a caller that was queued
\* behind a successful load and takes the lock, with no Clear() in between,
\* within the TTL of that load's completion gets a cache hit with the loaded
\* value, also when the load itself lasted longer than the TTL.
C27_ClockStartsAtCompletion ==
    /\ \A p \in Procs :
          (pc[p] = "Value_ret" /\ ldr[p] # <<>> /\ err[p] = NoErr)
          => lastLoad = <<ldr[p][Len(ldr[p])].doneAt>>
    /\ \A j \in LogIdx :
          (withTTL /\ IsValue(log[j]) /\ log[j].waited # 0
              /\ Succeeded(log[log[j].waited]) /\ OnlyValues(log[j].waited, j)
              /\ log[j].at - LoadOf(log[log[j].waited]).doneAt <= ttl)
          => /\ IsHit(log[j])
             /\ log[j].val = LoadOf(log[log[j].waited]).val
             /\ log[j].err = NoErr

C27_Witness ==
    /\ withTTL
    /\ Len(log) = 2
    /\ Succeeded(log[1])
    /\ LoadOf(log[1]).doneAt - log[1].at > ttl
    /\ IsHit(log[2])
    /\ log[2].waited = 1
    /\ log[2].at - log[1].at > ttl
    /\ log[2].at - LoadOf(log[1]).doneAt <= ttl

\* ------------------------------------------------------ fair scheduling
\* The goroutine that holds the mutex keeps running: it evaluates its
\* condition, returns and unlocks; every loader invocation returns; and the
\* mutex is fair: a goroutine that is waiting in Lock() while the mutex is
\* released again and again gets it in the end.  Nothing obliges a caller to
\* make a call.

\* the steps of the goroutine that holds the mutex
HolderStep ==
    \E p \in Procs :
        \/ ValueCheck(p)
        \/ \E r \in LoaderResults : LoaderReturn(p, r)
        \/ ValueReturn(p)
        \/ ClearBody(p)

Fairness ==
    /\ WF_vars(HolderStep)
    /\ \A p \in Procs : SF_vars(ValueLock(p) \/ ClearLock(p))

\* the calls of Next.  No statement of Value() or Clear() waits for the
\* clock, which only chooses between the two paths of Value(); both are
\* taken here, the load by calls that find the cell unloaded
NextFair ==
    \/ \E p \in Procs : \E cs \in CtxLists : ValueCall(p, cs)
    \/ \E p \in Procs : ValueLock(p)
    \/ \E p \in Procs : ValueCheck(p)
    \/ \E p \in Procs : \E r \in LoaderResults : LoaderReturn(p, r)
    \/ \E p \in Procs : ValueReturn(p)
    \/ \E p \in Procs : ClearCall(p)
    \/ \E p \in Procs : ClearLock(p)
    \/ \E p \in Procs : ClearBody(p)

SpecFair == Init /\ [][NextFair]_vars /\ Fairness

\* C28 (under SpecFair): every Value() call and every Clear() call that has
\* been made returns in the end, whatever the other callers do and whether
\* the loads succeed or fail, and the mutex is free whenever no call is in
\* progress.
C28_EveryCallReturns ==
    /\ \A p \in Procs : (pc[p] # "idle") ~> (pc[p] = "idle")
    /\ []((\A p \in Procs : pc[p] = "idle") => ~mu)

C28_Witness ==
    /\ \A p \in Procs : pc[p] = "idle"
    /\ ~mu
    /\ Len(log) = 3
    /\ Failed(log[1])
    /\ IsClear(log[2])
    /\ Invoked(log[3])
    /\ log[3].waited = 1

====
